---------------------------- MODULE Spec2Model ----------------------------
(***************************************************************************)
(* A model of rtp.py: encoding and decoding of RTP frames.                 *)
(*                                                                         *)
(* Byte strings (Python bytes) and lists are sequences of integers.  A     *)
(* value stored in the decoder's `data` list is tagged with its Python     *)
(* type, so that None, an int, a bytes object and a list stay distinct.    *)
(* A call ends either normally (kind "ok") or by raising; kind then is the *)
(* name of the exception class.                                            *)
(***************************************************************************)
EXTENDS Integers, Sequences, FiniteSets, TLC

VARIABLES call, req, enc, frame, dec, query, qres

vars == <<call, req, enc, frame, dec, query, qres>>

\* -------------------------------------------------------------- bounds

\* Longest payload handed to encode.
MaxPayloadLen == 1

\* Most 32 bit words that follow the fixed header in a hand-built frame.
MaxWords == 2

\* Most single bytes that follow those words in a hand-built frame.
MaxBodyLen == 2

\* Most field identifiers in one query of the accessor.
MaxQueryLen == 2

\* ------------------------------------------------------ Python values

PyNone == [t |-> "None"]

PyInt(n) == [t |-> "int", v |-> n]

PyBytes(s) == [t |-> "bytes", v |-> s]

PyList(s) == [t |-> "list", v |-> s]

Min(a, b) == IF a < b THEN a ELSE b

Max(a, b) == IF a > b THEN a ELSE b

\* s[start:stop] of Python, for any integers start and stop: a negative index
\* counts from the end, and both are clamped to the sequence.
PySlice(s, start, stop) ==
    LET n  == Len(s)
        lo == IF start < 0 THEN Max(n + start, 0) ELSE Min(start, n)
        hi == IF stop < 0 THEN Max(n + stop, 0) ELSE Min(stop, n)
    IN  IF lo >= hi THEN << >> ELSE SubSeq(s, lo + 1, hi)

\* s[start:]
PySliceFrom(s, start) == PySlice(s, start, Len(s))

\* s[:stop]
PySliceTo(s, stop) == PySlice(s, 0, stop)

\* x & mask for a mask of `width` one bits starting at bit `lo`.  Python's
\* integers are unbounded two's complement, so for a negative x this is the
\* floored remainder.
BitAnd(x, lo, width) == ((x \div (2 ^ lo)) % (2 ^ width)) * (2 ^ lo)

\* bytes(x) of a sequence of integers: ValueError unless each is in range(256).
IsByteSeq(s) == \A i \in 1..Len(s) : s[i] >= 0 /\ s[i] <= 255

\* struct.pack(">B" / ">H" / ">I", n): n must fit; the bytes are big-endian.
FitsBits(n, bits) == n >= 0 /\ n < 2 ^ bits

BE16(n) == << n \div 256, n % 256 >>

\* TLC's integers are 32 bit signed, Python's are unbounded: a 32 bit field
\* value n is held as its two 16 bit halves, hi = n // 65536 (any integer, so
\* negative for a negative n and above 65535 for an n of more than 32 bits)
\* and lo = n % 65536.
Wide(hi, lo) == [hi |-> hi, lo |-> lo]

\* 0 <= n <= 0xffffffff
FitsWide(n) == n.hi >= 0 /\ n.hi <= 65535

\* n > 0xffffffff
AboveWide(n) == n.hi > 65535

BE32(n) == BE16(n.hi) \o BE16(n.lo)

\* struct.unpack(">H" / ">I", b)[0]
U16(b) == b[1] * 256 + b[2]

U32(b) == Wide(U16(SubSeq(b, 1, 2)), U16(SubSeq(b, 3, 4)))

\* ------------------------------------------------------------ class Rtp

Rtp == [Payload |-> 0, PayloadType |-> 1, Ssrc |-> 2, Csrcs |-> 3, Timestamp |-> 4,
        SequenceNumber |-> 5, Version |-> 6, Marker |-> 7, Padding |-> 8]

RtpValues == {Rtp[f] : f \in DOMAIN Rtp}

\* --------------------------------------------------------------- encode

Raise(kind) == [kind |-> kind, frame |-> << >>]

Return(bytes) == [kind |-> "ok", frame |-> bytes]

\* h1 = (version << 6); if padding: h1 = h1 | 0x20; h1 += len(csrcs)
EncodeH1(version, padding, csrcs) ==
    version * 64 + (IF Len(padding) > 0 THEN 32 ELSE 0) + Len(csrcs)

\* h2 = payload_type & 0x7f; if marker: h2 = h2 | 0x80
EncodeH2(payload_type, marker) ==
    BitAnd(payload_type, 0, 7) + (IF marker THEN 128 ELSE 0)

\* A plausible slip: timestamp and ssrc packed in the other order.
PackHeaderSwapped(h1, h2, seq, timestamp, ssrc) ==
    << h1, h2 >> \o BE16(seq) \o BE32(ssrc) \o BE32(timestamp)

\* pack(">BBHII", h1, h2, seq, timestamp, ssrc)
PackHeader(h1, h2, seq, timestamp, ssrc) ==
    << h1, h2 >> \o BE16(seq) \o BE32(timestamp) \o BE32(ssrc)

\* The loop over csrcs: the frame with each csrc appended, or the exception
\* raised at the first csrc that does not fit.
RECURSIVE AppendCsrcs(_, _, _)
AppendCsrcs(bytes, csrcs, i) ==
    IF i > Len(csrcs) THEN Return(bytes)
    ELSE IF AboveWide(csrcs[i]) THEN Raise("ValueError")
    ELSE IF ~FitsWide(csrcs[i]) THEN Raise("struct.error")
    ELSE AppendCsrcs(bytes \o BE32(csrcs[i]), csrcs, i + 1)

\* The end of encode: payload, the padding length check, padding.
AppendPayload(bytes, payload, padding) ==
    IF ~IsByteSeq(payload) THEN Raise("ValueError")
    ELSE IF Len(padding) > 255 THEN Raise("ValueError")
    ELSE IF Len(padding) > 0
         THEN IF ~IsByteSeq(padding) THEN Raise("ValueError")
              ELSE Return(bytes \o payload \o padding \o << Len(padding) >>)
         ELSE Return(bytes \o payload)

\* A plausible slip: 0x7f <= payload_type.
PayloadTypeOutOfRangeOffByOne(payload_type) == 127 <= payload_type

\* The payload type check that opens encode.
PayloadTypeOutOfRange(payload_type) == 127 < payload_type

\* A plausible slip: 15 <= len(csrcs).
TooManyCsrcsOffByOne(csrcs) == 15 <= Len(csrcs)

\* if 15 < len(csrcs)
TooManyCsrcs(csrcs) == 15 < Len(csrcs)

encode(r) ==
    IF PayloadTypeOutOfRange(r.payload_type) THEN Raise("ValueError")
    ELSE IF r.version \notin {1, 2} THEN Raise("ValueError")
    ELSE IF TooManyCsrcs(r.csrcs) THEN Raise("ValueError")
    ELSE LET h1 == EncodeH1(r.version, r.padding, r.csrcs)
             h2 == EncodeH2(r.payload_type, r.marker)
         IN  IF ~(FitsBits(h1, 8) /\ FitsBits(h2, 8) /\ FitsBits(r.seq, 16)
                  /\ FitsWide(r.timestamp) /\ FitsWide(r.ssrc))
             THEN Raise("struct.error")
             ELSE LET withCsrcs ==
                          AppendCsrcs(PackHeader(h1, h2, r.seq, r.timestamp, r.ssrc),
                                      r.csrcs, 1)
                  IN  IF withCsrcs.kind # "ok" THEN withCsrcs
                      ELSE AppendPayload(withCsrcs.frame, r.payload, r.padding)

\* --------------------------------------------------------------- decode

\* data = [None] * len(Rtp)
EmptyData == [i \in RtpValues |-> PyNone]

Fail(kind) == [kind |-> kind, data |-> EmptyData]

Accessor(data) == [kind |-> "ok", data |-> data]

\* parse_32bit_nums_big_endian: unpack(">I", ...) of each 4 byte slice raises
\* struct.error when the slice is shorter than 4 bytes.
WordSlice(inbytes, i) == PySlice(inbytes, i * 4, i * 4 + 4)

CanParseWords(num, inbytes) == \A i \in 0..(num - 1) : Len(WordSlice(inbytes, i)) = 4

parse_32bit_nums_big_endian(num, inbytes) ==
    [i \in 1..num |-> U32(WordSlice(inbytes, i - 1))]

\* A plausible slip: the version is never stored.
HeaderDataWithoutVersion(fr) ==
    LET h2 == fr[2]
    IN  [EmptyData EXCEPT
            ![Rtp.SequenceNumber] = PyInt(U16(SubSeq(fr, 3, 4))),
            ![Rtp.Timestamp]      = PyInt(U32(SubSeq(fr, 5, 8))),
            ![Rtp.Ssrc]           = PyInt(U32(SubSeq(fr, 9, 12))),
            ![Rtp.PayloadType]    = PyInt(BitAnd(h2, 0, 7)),
            ![Rtp.Marker]         = PyInt(BitAnd(h2, 7, 1) \div 128)]

\* The fixed header fields, stored into data in the order of the source.
HeaderData(fr) ==
    LET h1 == fr[1]
        h2 == fr[2]
    IN  [EmptyData EXCEPT
            ![Rtp.SequenceNumber] = PyInt(U16(SubSeq(fr, 3, 4))),
            ![Rtp.Timestamp]      = PyInt(U32(SubSeq(fr, 5, 8))),
            ![Rtp.Ssrc]           = PyInt(U32(SubSeq(fr, 9, 12))),
            ![Rtp.PayloadType]    = PyInt(BitAnd(h2, 0, 7)),
            ![Rtp.Marker]         = PyInt(BitAnd(h2, 7, 1) \div 128),
            ![Rtp.Version]        = PyInt(BitAnd(h1, 6, 2) \div 64)]

\* A plausible slip: the padding is cut off the payload, its length byte is not.
SplitPaddingKeepsLengthByte(data, payload) ==
    IF Len(payload) = 0 THEN Fail("IndexError")
    ELSE LET padding_length == payload[Len(payload)]
         IN  Accessor([data EXCEPT
                 ![Rtp.Padding] = PyBytes(PySlice(payload, -padding_length - 1, -1)),
                 ![Rtp.Payload] = PyBytes(PySliceTo(payload, -padding_length))])

\* if (h1 & 0x20): the last byte of the payload is the padding length.
SplitPadding(data, payload) ==
    IF Len(payload) = 0 THEN Fail("IndexError")
    ELSE LET padding_length == payload[Len(payload)]
         IN  Accessor([data EXCEPT
                 ![Rtp.Padding] = PyBytes(PySlice(payload, -padding_length - 1, -1)),
                 ![Rtp.Payload] = PyBytes(PySliceTo(payload, -padding_length - 1))])

\* if (h1 & 0x10): the call of index_after_extension_header, a name that is
\* bound nowhere in the module.
SkipExtension(fr, read_index) == Fail("NameError")

\* The part of decode after the CSRC list.
DecodeBody(fr, h1, data, read_index) ==
    IF BitAnd(h1, 4, 1) # 0 THEN SkipExtension(fr, read_index)
    ELSE LET payload == PySliceFrom(fr, read_index)
         IN  IF BitAnd(h1, 5, 1) # 0 THEN SplitPadding(data, payload)
             ELSE Accessor([data EXCEPT ![Rtp.Payload] = PyBytes(payload)])

decode(fr) ==
    IF Len(PySliceTo(fr, 12)) # 12 THEN Fail("struct.error")
    ELSE LET h1        == fr[1]
             num_csrcs == BitAnd(h1, 0, 4)
             rest      == PySliceFrom(fr, 12)
         IN  IF ~CanParseWords(num_csrcs, rest) THEN Fail("struct.error")
             ELSE DecodeBody(fr, h1,
                             [HeaderData(fr) EXCEPT ![Rtp.Csrcs] =
                                 PyList(parse_32bit_nums_big_endian(num_csrcs, rest))],
                             num_csrcs * 4 + 12)

\* ----------------------------------------------------------- get_fields

\* What a caller may pass as a field identifier: a member of Rtp, a member of
\* some other Enum, or a plain int.
RtpMember(value) == [cls |-> "Rtp", value |-> value]

Identifiers ==
    {RtpMember(n) : n \in RtpValues}
        \cup {[cls |-> "OtherEnum", value |-> 0], [cls |-> "int", value |-> 3],
              [cls |-> "int", value |-> 99]}

\* The interpreters that run the module differ in `i in Rtp` for an i that
\* is no Enum member: up to 3.7 it is False, from 3.8 to 3.11 it raises
\* TypeError, from 3.12 on it is True when i is the value of a member.
PythonVersions == {"3.7", "3.11", "3.12"}

\* `i in Rtp`: "True", "False" or the exception raised.
InRtp(i, python) ==
    IF i.cls = "Rtp" THEN "True"
    ELSE IF i.cls = "OtherEnum" THEN "False"
    ELSE IF python = "3.7" THEN "False"
    ELSE IF python = "3.11" THEN "TypeError"
    ELSE IF i.value \in RtpValues THEN "True" ELSE "False"

\* get_field(i): "ok" and the value, or the exception raised.  A plain int
\* has no attribute `value`.
get_field(data, i, python) ==
    LET member == InRtp(i, python)
    IN  IF member = "TypeError" THEN [kind |-> "TypeError", value |-> PyNone]
        ELSE IF member = "False" THEN [kind |-> "ValueError", value |-> PyNone]
        ELSE IF i.cls # "Rtp" THEN [kind |-> "AttributeError", value |-> PyNone]
        ELSE [kind |-> "ok", value |-> data[i.value]]

\* get_fields(index, *more_indices): the value alone for one identifier, the
\* list of the values for more; the first exception raised ends the call.
get_fields(data, ids, python) ==
    LET got == [k \in 1..Len(ids) |-> get_field(data, ids[k], python)]
        bad == {k \in 1..Len(ids) : got[k].kind # "ok"}
    IN  IF bad # {}
        THEN [kind |-> got[CHOOSE k \in bad : \A j \in bad : k <= j].kind,
              single |-> TRUE, values |-> << >>]
        ELSE [kind |-> "ok", single |-> Len(ids) = 1,
              values |-> [k \in 1..Len(ids) |-> got[k].value]]

\* ------------------------------------------------------------ the calls

NoRequest == [ssrc |-> Wide(0, 0), payload_type |-> 0, payload |-> << >>, seq |-> 0,
              timestamp |-> Wide(0, 0), version |-> 2, csrcs |-> << >>, padding |-> << >>,
              marker |-> FALSE]

NoResult == [kind |-> "none", single |-> TRUE, values |-> << >>]

\* Sequences over S of length at most n.
SeqUpTo(S, n) == UNION {[1..k -> S] : k \in 0..n}

\* csrcs arguments: n distinct ids that fit, and lists holding one that does not.
\* (the last one is 0x192837ff, the others 3, 5, 7, ...)
CsrcList(n) == [i \in 1..n |-> IF i = n THEN Wide(6440, 14335) ELSE Wide(0, 2 * i + 1)]

CsrcArgs ==
    {CsrcList(n) : n \in {0, 2, 15, 16}}
        \cup {<<Wide(0, 3), Wide(65536, 0), Wide(0, 7)>>,
              <<Wide(0, 3), Wide(-1, 65535), Wide(65536, 0)>>}

\* padding arguments of n bytes.
PaddingBytes(n) == [i \in 1..n |-> i % 256]

PaddingArgs == {PaddingBytes(n) : n \in {0, 3, 255, 256}}

\* payload arguments: any integers, 256 being one that bytes() refuses.
PayloadArgs == SeqUpTo({241, 3, 256}, MaxPayloadLen)

Requests ==
    [ssrc : {Wide(-1, 65535), Wide(0, 12), Wide(65535, 65535)},
     payload_type : {-1, 0, 42, 127, 128},
     payload : PayloadArgs,
     seq : {4660, 65535, 65536},
     timestamp : {Wide(41651, 50389), Wide(65536, 0)},
     version : {0, 1, 2, 3},
     csrcs : CsrcArgs,
     padding : PaddingArgs,
     marker : BOOLEAN]

\* One run of the codec: the arguments of the encode call are chosen at the
\* start, the calls follow.
Init ==
    /\ call = "start"
    /\ req \in Requests
    /\ enc = Raise("none")
    /\ frame = << >>
    /\ dec = Fail("none")
    /\ query = << >>
    /\ qres = NoResult

\* encoded = encode(ssrc, payload_type, payload, seq, timestamp, ...)
Encode ==
    /\ call = "start"
    /\ call' = "encode"
    /\ enc' = encode(req)
    /\ UNCHANGED <<req, frame, dec, query, qres>>

\* decoded = decode(encoded)
DecodeEncoded ==
    /\ call = "encode"
    /\ enc.kind = "ok"
    /\ call' = "decode"
    /\ frame' = enc.frame
    /\ dec' = decode(enc.frame)
    /\ UNCHANGED <<req, enc, query, qres>>

Next ==
    \/ Encode
    \/ DecodeEncoded

Spec == Init /\ [][Next]_vars

\* ------------------------------------------- decode of received frames

\* The fixed header of the test frame of the module's self test, with the
\* two octets that hold the flags replaced.
TestHeader(h1, h2) == << h1, h2, 18, 52, 162, 179, 196, 213, 209, 194, 179, 164 >>

\* First octets: every version, padding flag, extension flag, and a CSRC
\* count of up to MaxWords.
FirstOctets ==
    {v * 64 + p * 32 + x * 16 + cc : v \in 0..3, p \in 0..1, x \in 0..1, cc \in 0..MaxWords}

SecondOctets == {127, 170}

\* What follows the fixed header: some 32 bit words, then some single bytes.
Words == {<<0, 0, 0, 0>>, <<0, 0, 0, 1>>, <<25, 40, 55, 255>>}

RECURSIVE Flatten(_)
Flatten(ws) == IF ws = << >> THEN << >> ELSE Head(ws) \o Flatten(Tail(ws))

Tails ==
    {Flatten(ws) \o body : ws \in SeqUpTo(Words, MaxWords),
                           body \in SeqUpTo({0, 1, 5}, MaxBodyLen)}

\* Frames as they may arrive: with any flags, of any length, cut short too.
ReceivedFrames ==
    {TestHeader(h1, h2) \o t : h1 \in FirstOctets, h2 \in SecondOctets, t \in Tails}
        \cup {SubSeq(TestHeader(h1, 127), 1, n) : h1 \in FirstOctets, n \in 0..11}

InitDecode ==
    /\ call = "start"
    /\ req = NoRequest
    /\ enc = Raise("none")
    /\ frame \in ReceivedFrames
    /\ dec = Fail("none")
    /\ query = << >>
    /\ qres = NoResult

\* decoded = decode(frame)
Decode ==
    /\ call = "start"
    /\ call' = "decode"
    /\ dec' = decode(frame)
    /\ UNCHANGED <<req, enc, frame, query, qres>>

NextDecode == Decode

SpecDecode == InitDecode /\ [][NextDecode]_vars

\* ------------------------------------------------ queries of a decoded frame

\* The frames of the module's doctest and self test: plain, with padding,
\* with padding and marker.
SampleFrames ==
    {<<128, 1, 0, 0, 0, 0, 4, 210, 0, 0, 0, 12, 1, 2, 3, 4>>,
     <<69, 127, 18, 52, 162, 179, 196, 213, 209, 194, 179, 164, 0, 0, 0, 3,
       0, 0, 0, 4, 0, 0, 0, 7, 0, 0, 0, 11, 25, 40, 55, 255,
       241, 226, 211, 196, 181, 166>>,
     <<101, 127, 18, 52, 162, 179, 196, 213, 209, 194, 179, 164, 0, 0, 0, 3,
       0, 0, 0, 4, 0, 0, 0, 7, 0, 0, 0, 11, 25, 40, 55, 255,
       241, 226, 211, 196, 181, 166, 1, 2, 3, 3>>,
     <<101, 255, 18, 52, 162, 179, 196, 213, 209, 194, 179, 164, 0, 0, 0, 3,
       0, 0, 0, 4, 0, 0, 0, 7, 0, 0, 0, 11, 25, 40, 55, 255,
       241, 226, 211, 196, 181, 166, 1, 2, 3, 3>>}

InitQuery ==
    /\ call = "start"
    /\ req = NoRequest
    /\ enc = Raise("none")
    /\ frame \in SampleFrames
    /\ dec = Fail("none")
    /\ query = << >>
    /\ qres = NoResult

\* decoded(index, *more_indices), on the accessor a decode returned.
Query(ids, python) ==
    /\ call \in {"decode", "query"}
    /\ dec.kind = "ok"
    /\ call' = "query"
    /\ query' = ids
    /\ qres' = get_fields(dec.data, ids, python)
    /\ UNCHANGED <<req, enc, frame, dec>>

Queries == SeqUpTo(Identifiers, MaxQueryLen) \ {<< >>}

NextQuery ==
    \/ Decode
    \/ \E ids \in Queries, python \in PythonVersions : Query(ids, python)

SpecQuery == InitQuery /\ [][NextQuery]_vars

\* ------------------------------------------------- claims about encode

\* The encode requests the specification calls valid.
ValidRequest(r) ==
    /\ r.payload_type >= 0 /\ r.payload_type <= 127
    /\ r.version \in {1, 2}
    /\ Len(r.csrcs) <= 15
    /\ \A i \in 1..Len(r.csrcs) : FitsWide(r.csrcs[i])
    /\ Len(r.padding) <= 255
    /\ FitsBits(r.seq, 16)
    /\ FitsWide(r.timestamp)
    /\ FitsWide(r.ssrc)
    /\ IsByteSeq(r.payload)
    /\ IsByteSeq(r.padding)

\* Python's ==  between the bool given as marker and the int that decode
\* stores (True == 1 and False == 0).
MarkerEquals(value, marker) == value = PyInt(IF marker THEN 1 ELSE 0)

\* What decode(encode(...)) recovers apart from Padding.
RecoversFields(r, data) ==
    /\ data[Rtp.Ssrc] = PyInt(r.ssrc)
    /\ data[Rtp.PayloadType] = PyInt(r.payload_type)
    /\ data[Rtp.Payload] = PyBytes(r.payload)
    /\ data[Rtp.SequenceNumber] = PyInt(r.seq)
    /\ data[Rtp.Timestamp] = PyInt(r.timestamp)
    /\ data[Rtp.Version] = PyInt(r.version)
    /\ data[Rtp.Csrcs] = PyList(r.csrcs)
    /\ MarkerEquals(data[Rtp.Marker], r.marker)

\* C1 as stated: decode(encode(...)) of a valid request recovers every field,
\* Padding included, with the value given to encode.
C1_RoundTripAsStated ==
    (call = "decode" /\ ValidRequest(req)) =>
        /\ dec.kind = "ok"
        /\ RecoversFields(req, dec.data)
        /\ dec.data[Rtp.Padding] = PyBytes(req.padding)

\* C1 amended: decode(encode(...)) of a valid request recovers every field with
\* the value given to encode, except that Padding is None when the padding
\* given to encode is empty.
C1_RoundTrip ==
    (call = "decode" /\ ValidRequest(req)) =>
        /\ dec.kind = "ok"
        /\ RecoversFields(req, dec.data)
        /\ dec.data[Rtp.Padding] =
               IF Len(req.padding) > 0 THEN PyBytes(req.padding) ELSE PyNone

C1_Witness ==
    /\ call = "decode" /\ ValidRequest(req) /\ dec.kind = "ok"
    /\ Len(req.padding) = 255 /\ Len(req.csrcs) = 15 /\ req.marker
    /\ Len(req.payload) > 0

\* C3: the frame encode returns for a valid request is h1, h2, seq, timestamp,
\* ssrc, the csrcs in order, the payload, and for a non-empty padding the
\* padding and its length; h1 and h2 are as the specification says, the
\* extension bit is clear, and the length is the sum of the parts.
C3_WireLayout ==
    (call = "encode" /\ ValidRequest(req)) =>
        /\ enc.kind = "ok"
        /\ LET f   == enc.frame
               n   == Len(req.csrcs)
               pad == Len(req.padding)
               at  == 12 + 4 * n
           IN  /\ Len(f) = at + Len(req.payload) + (IF pad > 0 THEN pad + 1 ELSE 0)
               /\ f[1] = req.version * 64 + (IF pad > 0 THEN 32 ELSE 0) + n
               /\ (f[1] \div 16) % 2 = 0
               /\ f[2] = (IF req.marker THEN 128 ELSE 0) + req.payload_type
               /\ f[3] * 256 + f[4] = req.seq
               /\ f[5] * 256 + f[6] = req.timestamp.hi
               /\ f[7] * 256 + f[8] = req.timestamp.lo
               /\ f[9] * 256 + f[10] = req.ssrc.hi
               /\ f[11] * 256 + f[12] = req.ssrc.lo
               /\ \A i \in 1..n :
                      /\ f[8 + 4 * i + 1] * 256 + f[8 + 4 * i + 2] = req.csrcs[i].hi
                      /\ f[8 + 4 * i + 3] * 256 + f[8 + 4 * i + 4] = req.csrcs[i].lo
               /\ \A i \in 1..Len(f) : f[i] \in 0..255
               /\ SubSeq(f, at + 1, at + Len(req.payload)) = req.payload
               /\ pad > 0 =>
                      /\ SubSeq(f, Len(f) - pad, Len(f) - 1) = req.padding
                      /\ f[Len(f)] = pad

C3_Witness ==
    /\ call = "encode" /\ ValidRequest(req) /\ enc.kind = "ok"
    /\ Len(req.padding) = 3 /\ Len(req.csrcs) = 2 /\ Len(req.payload) > 0
    /\ req.marker /\ req.version = 1

\* C4 as stated: a payload type above 0x7f fails with a RangeError, an error
\* kind other than the ValueError of the version and csrc count checks;
\* payload type 127 succeeds.
C4_RangeErrorAsStated ==
    call = "encode" =>
        /\ req.payload_type > 127 => enc.kind = "RangeError"
        /\ (req.payload_type = 127 /\ ValidRequest(req)) => enc.kind = "ok"

\* C4 amended: a payload type above 0x7f fails with a ValueError, the error
\* kind of the version and csrc count checks too, and no buffer is returned;
\* payload type 127 succeeds.
C4_PayloadTypeBound ==
    call = "encode" =>
        /\ req.payload_type > 127 => (enc.kind = "ValueError" /\ enc.frame = << >>)
        /\ (req.payload_type <= 127 /\ req.version \notin {1, 2}) =>
               enc.kind = "ValueError"
        /\ (req.payload_type <= 127 /\ req.version \in {1, 2} /\ Len(req.csrcs) > 15) =>
               enc.kind = "ValueError"
        /\ (req.payload_type = 127 /\ ValidRequest(req)) => enc.kind = "ok"

C4_Witness ==
    /\ call = "encode" /\ req.payload_type = 128 /\ enc.kind = "ValueError"
    /\ ValidRequest([req EXCEPT !.payload_type = 127])

\* C5: more than 15 csrcs fail with a ValueError and no buffer; exactly 15
\* csrcs that fit succeed, the low nibble of the first octet is 15, and
\* decoding the frame yields the 15 csrcs in the order given.
C5_CsrcCount ==
    /\ (call # "start" /\ Len(req.csrcs) > 15) =>
           (enc.kind = "ValueError" /\ enc.frame = << >>)
    /\ (call # "start" /\ Len(req.csrcs) = 15 /\ ValidRequest(req)) =>
           (enc.kind = "ok" /\ enc.frame[1] % 16 = 15)
    /\ (call = "decode" /\ Len(req.csrcs) = 15 /\ ValidRequest(req)) =>
           /\ dec.kind = "ok"
           /\ dec.data[Rtp.Csrcs].t = "list"
           /\ Len(dec.data[Rtp.Csrcs].v) = 15
           /\ \A i \in 1..15 : dec.data[Rtp.Csrcs].v[i] = req.csrcs[i]

C5_Witness ==
    /\ call = "decode" /\ Len(req.csrcs) = 15 /\ ValidRequest(req) /\ dec.kind = "ok"
    /\ \A i, j \in 1..15 : i # j => req.csrcs[i] # req.csrcs[j]

\* C9: whenever encode returns a buffer, every argument was within its width:
\* 0 <= payload type <= 0x7f, seq in 16 bits, timestamp, ssrc and each csrc
\* in 32 bits, at most 15 csrcs, at most 255 padding bytes, version 1 or 2.
C9_WidthsValidated ==
    (call # "start" /\ enc.kind = "ok") =>
        /\ req.payload_type >= 0 /\ req.payload_type <= 127
        /\ FitsBits(req.seq, 16)
        /\ FitsWide(req.timestamp)
        /\ FitsWide(req.ssrc)
        /\ \A i \in 1..Len(req.csrcs) : FitsWide(req.csrcs[i])
        /\ Len(req.csrcs) <= 15
        /\ Len(req.padding) <= 255
        /\ req.version \in {1, 2}

\* ------------------------------------------------- claims about decode

\* The flags and the CSRC count of a frame of at least one byte.
PaddingFlag(fr) == (fr[1] \div 32) % 2 = 1

ExtensionFlag(fr) == (fr[1] \div 16) % 2 = 1

CsrcCount(fr) == fr[1] % 16

\* Where the extension block of RFC 3550 section 5.3.1 ends when it starts
\* after byte `at`: 16 bits of profile, 16 bits of length counted in 32 bit
\* words, then that many words.
ExtensionEnd(fr, at) == at + 4 + 4 * (fr[at + 3] * 256 + fr[at + 4])

HasExtensionBlock(fr) ==
    /\ Len(fr) >= 12
    /\ ExtensionFlag(fr)
    /\ Len(fr) >= 12 + 4 * CsrcCount(fr) + 4
    /\ Len(fr) >= ExtensionEnd(fr, 12 + 4 * CsrcCount(fr))

\* The bytes of s without its last n.
DropLast(s, n) == SubSeq(s, 1, Len(s) - n)

\* C2: decode of a frame with the extension bit set succeeds, and Payload is
\* the bytes after the extension block that follows the CSRC list, less the
\* padding and its length byte when the padding flag is set.
C2_ExtensionSkipped ==
    (call = "decode" /\ HasExtensionBlock(frame)) =>
        LET after == PySliceFrom(frame, ExtensionEnd(frame, 12 + 4 * CsrcCount(frame)))
        IN  IF ~PaddingFlag(frame)
            THEN dec.kind = "ok" /\ dec.data[Rtp.Payload] = PyBytes(after)
            ELSE (Len(after) > 0 /\ after[Len(after)] < Len(after)) =>
                    /\ dec.kind = "ok"
                    /\ dec.data[Rtp.Payload] =
                           PyBytes(DropLast(after, after[Len(after)] + 1))

\* C6: decode either fails and returns no accessor, or returns an accessor in
\* which every field but Padding holds a value and Padding is None exactly
\* when the padding flag is clear; a frame of fewer than 12 bytes, or of fewer
\* than 12 + 4 * (h1 & 0x0f) bytes, fails.
C6_AllOrNothing ==
    call = "decode" =>
        /\ dec.kind # "ok" => dec.data = EmptyData
        /\ dec.kind = "ok" =>
               /\ \A i \in RtpValues \ {Rtp.Padding} : dec.data[i] # PyNone
               /\ (dec.data[Rtp.Padding] = PyNone) <=> ~PaddingFlag(frame)
        /\ Len(frame) < 12 => dec.kind # "ok"
        /\ (Len(frame) >= 1 /\ Len(frame) < 12 + 4 * CsrcCount(frame)) => dec.kind # "ok"

C6_Witness ==
    /\ call = "decode" /\ dec.kind = "ok"
    /\ PaddingFlag(frame) /\ CsrcCount(frame) = 1
    /\ dec.data[Rtp.Padding] = PyBytes(<<1>>)
    /\ Len(dec.data[Rtp.Payload].v) = 4

\* C8: when decode succeeds on a frame with the padding flag set, with T the
\* bytes from the read cursor to the end and p the last byte of T, Padding is
\* the p bytes before that last byte and Payload is T without its last p + 1
\* bytes, also when p is 0 and when p >= len(T).
C8_PaddingSplit ==
    (call = "decode" /\ dec.kind = "ok" /\ PaddingFlag(frame)) =>
        LET T == PySliceFrom(frame, 12 + 4 * CsrcCount(frame))
            p == T[Len(T)]
        IN  /\ Len(dec.data[Rtp.Padding].v) = p
            /\ Len(dec.data[Rtp.Payload].v) + Len(dec.data[Rtp.Padding].v) + 1 = Len(T)
            /\ dec.data[Rtp.Payload].v \o dec.data[Rtp.Padding].v \o << p >> = T

\* A frame every part of which is there: the CSRC list, the extension block
\* when the extension flag is set, and the padding when the padding flag is.
WellFormed(fr) ==
    /\ Len(fr) >= 12 + 4 * CsrcCount(fr)
    /\ ExtensionFlag(fr) => HasExtensionBlock(fr)
    /\ PaddingFlag(fr) =>
           LET T == PySliceFrom(fr, IF ExtensionFlag(fr)
                                    THEN ExtensionEnd(fr, 12 + 4 * CsrcCount(fr))
                                    ELSE 12 + 4 * CsrcCount(fr))
           IN  Len(T) > 0 /\ T[Len(T)] < Len(T)

\* C10: encode rejects every version but 1 and 2 with a ValueError; decode of
\* a well-formed frame of at least 12 bytes succeeds whatever the two version
\* bits are, and Version is (h1 & 0xc0) >> 6.
C10_VersionAsymmetry ==
    /\ (call = "encode" /\ req.version \notin {1, 2}) => enc.kind = "ValueError"
    /\ (call = "decode" /\ Len(frame) >= 12 /\ WellFormed(frame)) =>
           (dec.kind = "ok" /\ dec.data[Rtp.Version] = PyInt(frame[1] \div 64))

\* C10 without the frames that carry an extension block.
VersionAcceptedWithoutExtension ==
    (call = "decode" /\ Len(frame) >= 12 /\ WellFormed(frame) /\ ~ExtensionFlag(frame)) =>
        (dec.kind = "ok" /\ dec.data[Rtp.Version] = PyInt(frame[1] \div 64))

\* --------------------------------------------- claims about the accessor

\* C7: a query with one identifier returns that field's value; a query with
\* k >= 2 identifiers returns the k values in the order of the identifiers;
\* a query with an identifier that is no member of Rtp fails with a
\* ValueError; no query changes what the accessor holds.
C7_Accessor ==
    call = "query" =>
        /\ dec = decode(frame)
        /\ IF \A k \in 1..Len(query) : query[k].cls = "Rtp"
           THEN /\ qres.kind = "ok"
                /\ Len(qres.values) = Len(query)
                /\ qres.single <=> Len(query) = 1
                /\ \A k \in 1..Len(query) : qres.values[k] = dec.data[query[k].value]
           ELSE qres.kind = "ValueError"

\* C7 for the identifiers that are members of an Enum.
AccessorOnEnumMembers ==
    (call = "query" /\ \A k \in 1..Len(query) : query[k].cls # "int") =>
        /\ dec = decode(frame)
        /\ IF \A k \in 1..Len(query) : query[k].cls = "Rtp"
           THEN /\ qres.kind = "ok"
                /\ Len(qres.values) = Len(query)
                /\ qres.single <=> Len(query) = 1
                /\ \A k \in 1..Len(query) : qres.values[k] = dec.data[query[k].value]
           ELSE qres.kind = "ValueError"

=============================================================================
